---- MODULE Spec2Model ----
(***************************************************************************)
(* WeaviateChatbot (src/chatbot.py) with its three callers: the console    *)
(* loop main() (src/chatbot.py), the Streamlit page (src/streamlit_app.py) *)
(* and a direct caller of the class's public methods.                      *)
(*                                                                         *)
(* The vector database, the embedding model and the completion model are   *)
(* external services.  Every call into them may fail; the point of failure *)
(* of one top-level call is the parameter `fault` of each operator.        *)
(***************************************************************************)
EXTENDS Integers, Sequences, FiniteSets, TLC

\* ---------------------------------------------------------------- bounds
MaxText == 2
MaxDocs == 2
MaxBatch == 2
MaxDrops == 1
MaxTurns == 1

\* ------------------------------------------------------ program constants
similarity_top_k == 3

Texts == 1..MaxText

VARIABLES
    OPENAI_API_KEY,   \* os.getenv("OPENAI_API_KEY") is set
    frontend,         \* which caller drives the chatbot
    pc,               \* position of the caller
    weaviate,         \* the class index_name inside the vector database
    chatbot,          \* the WeaviateChatbot object held by the caller
    messages,         \* st.session_state.messages
    last              \* the last call made and what came of it

vars == <<OPENAI_API_KEY, frontend, pc, weaviate, chatbot, messages, last>>

\* ------------------------------------------------------------ the objects
\* An index or query engine object; builtAt is the number of class drops
\* that had happened when it was built.
NoHandle == [built |-> FALSE, builtAt |-> 0]

Handle(db) == [built |-> TRUE, builtAt |-> db.drops]

\* The attributes of a WeaviateChatbot that the methods assign.
None ==
    [weaviate_client |-> FALSE, vector_store |-> FALSE,
     index |-> NoHandle, query_engine |-> NoHandle]

NoValue == [kind |-> "none", retrieved |-> <<>>]

\* A call that returns / a call that raises.
Return(cb, db, value) ==
    [cb |-> cb, db |-> db, raised |-> FALSE, exc |-> "none", value |-> value]

Raise(cb, db, exc) ==
    [cb |-> cb, db |-> db, raised |-> TRUE, exc |-> exc, value |-> NoValue]

\* ------------------------------------------------------- _setup_weaviate
\* weaviate.Client(url), is_ready(), then WeaviateVectorStore(client,
\* index_name), which creates the class when the schema does not hold it.
_setup_weaviate(cb, db, fault) ==
    LET db1 == [db EXCEPT !.contacted = TRUE]
        cb1 == [cb EXCEPT !.weaviate_client = TRUE]
    IN  IF fault = "unreachable" THEN Raise(cb, db1, "Exception")
        ELSE IF fault = "not_ready" THEN Raise(cb1, db1, "ConnectionError")
        ELSE Return([cb1 EXCEPT !.vector_store = TRUE],
                    [db1 EXCEPT !.classExists = TRUE], NoValue)

\* _setup_index whose fallback branch recreates the class before building
\* the empty index.
setup_index_recreating(cb, db, fault) ==
    IF fault \in {"storage", "index"} THEN Raise(cb, db, "Exception")
    ELSE LET cb1 == [cb EXCEPT !.index = Handle(db)]
             db1 == IF fault = "load" THEN [db EXCEPT !.docs = <<>>] ELSE db
         IN  IF fault = "engine" THEN Raise(cb1, db1, "Exception")
             ELSE Return([cb1 EXCEPT !.query_engine = Handle(db)],
                         db1, NoValue)

\* ---------------------------------------------------------- _setup_index
\* Builds the storage context ("storage": that raises), the index
\* (from_vector_store, or an empty VectorStoreIndex when that raises:
\* "load"; "index": both raise) and the query engine ("engine": that
\* raises), all over self.vector_store.  No call here writes to the vector
\* database.
_setup_index(cb, db, fault) ==
    IF fault \in {"storage", "index"} THEN Raise(cb, db, "Exception")
    ELSE LET cb1 == [cb EXCEPT !.index = Handle(db)]
         IN  IF fault = "engine" THEN Raise(cb1, db, "Exception")
             ELSE Return([cb1 EXCEPT !.query_engine = Handle(db)],
                         db, NoValue)

\* The constructor with the credential check left out.
init_unchecked(key, db, fault) ==
    IF fault = "provider" THEN Raise(None, db, "Exception")
    ELSE LET r == _setup_weaviate(None, db, fault)
         IN  IF r.raised THEN r ELSE _setup_index(r.cb, r.db, fault)

\* -------------------------------------------------------------- __init__
__init__(key, db, fault) ==
    IF ~key THEN Raise(None, db, "ValueError")
    ELSE IF fault = "provider" THEN Raise(None, db, "Exception")
    ELSE LET r == _setup_weaviate(None, db, fault)
         IN  IF r.raised THEN r ELSE _setup_index(r.cb, r.db, fault)

\* ---------------------------------------------------------- index.insert
\* One document embedded and written to the class; the write creates the
\* class when the database does not hold it.
index_insert(db, text) ==
    [db EXCEPT !.docs = Append(@, text), !.classExists = TRUE]

\* The loop "for doc in docs: self.index.insert(doc)" from item k on; the
\* insertion of item failAt raises (0: none does).
RECURSIVE insert_loop(_, _, _, _, _)
insert_loop(cb, db, docs, k, failAt) ==
    IF k > Len(docs) THEN Return(cb, db, NoValue)
    ELSE IF k = failAt THEN Raise(cb, db, "Exception")
    ELSE insert_loop(cb, index_insert(db, docs[k]), docs, k + 1, failAt)

\* add_documents that restores the collection when an insertion raises.
add_documents_rollback(cb, db, documents, fault, at) ==
    IF fault = "document" THEN Raise(cb, db, "Exception")
    ELSE LET r == insert_loop(cb, db, documents, 1,
                              IF fault = "insert" THEN at ELSE 0)
         IN  IF r.raised THEN Raise(cb, db, r.exc) ELSE r

\* --------------------------------------------------------- add_documents
\* First every Document is constructed (item `at` may raise there, before
\* anything is inserted), then each is inserted in order; an exception is
\* logged and raised again.
add_documents(cb, db, documents, fault, at) ==
    IF fault = "document" THEN Raise(cb, db, "Exception")
    ELSE insert_loop(cb, db, documents, 1, IF fault = "insert" THEN at ELSE 0)

\* --------------------------------------------------------- add_text_file
add_text_file(cb, db, content, fault) ==
    IF fault = "file" THEN Raise(cb, db, "IOError")
    ELSE IF fault = "insert" THEN Raise(cb, db, "Exception")
    ELSE Return(cb, index_insert(db, content), NoValue)

\* ------------------------------------------------------------- retrieval
\* Similarity of a stored text to a message: the smaller the closer.
Distance(message, text) ==
    IF message >= text THEN message - text ELSE text - message

\* The position of the stored text closest to the message, the earliest
\* one among equals.
Nearest(docs, message) ==
    CHOOSE i \in 1..Len(docs) :
        \A j \in 1..Len(docs) :
            \/ Distance(message, docs[i]) < Distance(message, docs[j])
            \/ Distance(message, docs[i]) = Distance(message, docs[j]) /\ i <= j

Without(docs, i) ==
    SubSeq(docs, 1, i - 1) \o SubSeq(docs, i + 1, Len(docs))

\* The k stored texts most similar to the message, most similar first.
RECURSIVE retrieve(_, _, _)
retrieve(docs, message, k) ==
    IF k = 0 \/ docs = <<>> THEN <<>>
    ELSE LET i == Nearest(docs, message)
         IN  <<docs[i]>> \o retrieve(Without(docs, i), message, k - 1)

\* query_engine.query that also stores the message in the collection.
query_storing(cb, db, message, fault) ==
    IF fault = "query" \/ ~db.classExists THEN Raise(cb, db, "Exception")
    ELSE Return(cb, index_insert(db, message),
                [kind |-> "answer",
                 retrieved |-> retrieve(db.docs, message, similarity_top_k)])

\* ---------------------------------------------------- query_engine.query
\* Embeds the message, searches the class and completes; raises when a
\* service fails or the class is not in the database.
query(cb, db, message, fault) ==
    IF fault = "query" \/ ~db.classExists THEN Raise(cb, db, "Exception")
    ELSE Return(cb, db,
                [kind |-> "answer",
                 retrieved |-> retrieve(db.docs, message, similarity_top_k)])

\* "I'm sorry, I encountered an error: ...": no retrieval result in it.
ErrorString == [kind |-> "error", retrieved |-> <<>>]

\* chat without its except clause.
chat_propagating(cb, db, message, fault) ==
    query(cb, db, message, fault)

\* ------------------------------------------------------------------ chat
\* The response as a string, or the error string when the query raised.
chat(cb, db, message, fault) ==
    LET r == query(cb, db, message, fault)
    IN  IF r.raised
        THEN Return(r.cb, r.db, ErrorString)
        ELSE r

\* -------------------------------------------------- clear_knowledge_base
\* schema.delete_class(index_name), then _setup_index(); an exception is
\* logged and raised again.  delete_class raises when the database is
\* unreachable ("delete"); on a class the database does not hold it
\* either raises ("absent") or does nothing, as the server decides.
clear_knowledge_base(cb, db, fault) ==
    IF fault = "delete" THEN Raise(cb, db, "Exception")
    ELSE IF fault = "absent" /\ ~db.classExists
    THEN Raise(cb, db, "Exception")
    ELSE _setup_index(cb,
                      [db EXCEPT !.classExists = FALSE, !.docs = <<>>,
                                 !.drops = IF db.classExists THEN @ + 1 ELSE @],
                      fault)

\* ============================================================ the callers
SeqsUpTo(n) == UNION {[1..m -> Texts] : m \in 0..n}

InitFaults ==
    {"none", "provider", "unreachable", "not_ready",
     "storage", "load", "index", "engine"}
AddFaults == {"none", "document", "insert"}
FileFaults == {"none", "file", "insert"}
ChatFaults == {"none", "query"}
ClearFaults == {"none", "delete", "absent", "storage", "load", "index", "engine"}

NoCall ==
    [cmd |-> "none", call |-> "none", fault |-> "none", raised |-> FALSE,
     exc |-> "none", value |-> NoValue, message |-> 0, documents |-> <<>>,
     at |-> 0, served |-> NoHandle, afterClear |-> FALSE]

\* The record of a call: the command that led to it, the method called,
\* its inputs, where it failed and what it gave back.  afterClear: the call
\* before it was a clear_knowledge_base that met no failure and returned.
Log(cmd, call, fault, r, message, documents, at, served) ==
    [cmd |-> cmd, call |-> call, fault |-> fault, raised |-> r.raised,
     exc |-> r.exc, value |-> r.value, message |-> message,
     documents |-> documents, at |-> IF fault = "none" THEN 0 ELSE at,
     served |-> served,
     afterClear |-> /\ last.call = "clear_knowledge_base"
                    /\ last.fault = "none"
                    /\ ~last.raised]

Init ==
    /\ OPENAI_API_KEY \in BOOLEAN
    /\ frontend \in {"console", "ui", "api"}
    /\ pc = "start"
    /\ weaviate \in
         {[classExists |-> FALSE, docs |-> <<>>, drops |-> 0,
           contacted |-> FALSE]}
         \cup {[classExists |-> TRUE, docs |-> d, drops |-> 0,
                contacted |-> FALSE] : d \in {<<>>} \cup {<<t>> : t \in Texts}}
    /\ chatbot = None
    /\ messages = <<>>
    /\ last = NoCall

\* ------------------------------------------------------- main(), console
\* chatbot = WeaviateChatbot(...); an exception ends main() in its outer
\* except clause.
MainInit ==
    /\ frontend = "console" /\ pc = "start"
    /\ \E fault \in InitFaults :
         LET r == __init__(OPENAI_API_KEY, weaviate, fault)
         IN  /\ pc' = IF r.raised THEN "done" ELSE "ready"
             /\ chatbot' = IF r.raised THEN None ELSE r.cb
             /\ weaviate' = r.db
             /\ last' = Log("start", "__init__", fault, r, 0, <<>>, 0, NoHandle)
    /\ UNCHANGED <<OPENAI_API_KEY, frontend, messages>>

\* 'quit': break.
MainQuit ==
    /\ frontend = "console" /\ pc = "ready"
    /\ pc' = "done"
    /\ last' = Log("quit", "none", "none", Return(chatbot, weaviate, NoValue),
                   0, <<>>, 0, NoHandle)
    /\ UNCHANGED <<OPENAI_API_KEY, frontend, weaviate, chatbot, messages>>

\* 'clear': chatbot.clear_knowledge_base() with no try around it, so an
\* exception reaches the outer except clause of main().
MainClear ==
    /\ frontend = "console" /\ pc = "ready"
    /\ weaviate.classExists => weaviate.drops < MaxDrops
    /\ \E fault \in ClearFaults :
         LET r == clear_knowledge_base(chatbot, weaviate, fault)
         IN  /\ pc' = IF r.raised THEN "done" ELSE "ready"
             /\ chatbot' = r.cb
             /\ weaviate' = r.db
             /\ last' = Log("clear", "clear_knowledge_base", fault, r,
                            0, <<>>, 0, NoHandle)
    /\ UNCHANGED <<OPENAI_API_KEY, frontend, messages>>

\* 'add_file <path>': chatbot.add_text_file(path) inside try/except.
MainAddFile ==
    /\ frontend = "console" /\ pc = "ready"
    /\ \E content \in Texts, fault \in FileFaults :
         LET r == add_text_file(chatbot, weaviate, content, fault)
         IN  /\ Len(r.db.docs) <= MaxDocs
             /\ chatbot' = r.cb
             /\ weaviate' = r.db
             /\ last' = Log("add_file", "add_text_file", fault, r,
                            0, <<content>>, 1, NoHandle)
    /\ UNCHANGED <<OPENAI_API_KEY, frontend, pc, messages>>

\* Any other non-empty input: chatbot.chat(user_input).
MainChat ==
    /\ frontend = "console" /\ pc = "ready"
    /\ \E message \in Texts, fault \in ChatFaults :
         LET r == chat(chatbot, weaviate, message, fault)
         IN  /\ pc' = IF r.raised THEN "done" ELSE "ready"
             /\ chatbot' = r.cb
             /\ weaviate' = r.db
             /\ last' = Log("chat", "chat", fault, r, message, <<>>, 0,
                            chatbot.query_engine)
    /\ UNCHANGED <<OPENAI_API_KEY, frontend, messages>>

\* Empty input: no branch of the loop is taken.
MainEmpty ==
    /\ frontend = "console" /\ pc = "ready"
    /\ last' = Log("empty", "none", "none", Return(chatbot, weaviate, NoValue),
                   0, <<>>, 0, NoHandle)
    /\ UNCHANGED <<OPENAI_API_KEY, frontend, pc, weaviate, chatbot, messages>>

\* -------------------------------------------------------- streamlit page
\* "Initialize Chatbot": initialize_chatbot(); the button is disabled once
\* st.session_state.initialized is set (pc = "ready").
UiInitialize ==
    /\ frontend = "ui" /\ pc = "start"
    /\ \E fault \in InitFaults :
         LET r == __init__(OPENAI_API_KEY, weaviate, fault)
         IN  /\ pc' = IF r.raised THEN "start" ELSE "ready"
             /\ chatbot' = IF r.raised THEN None ELSE r.cb
             /\ weaviate' = r.db
             /\ last' = Log("initialize", "__init__", fault, r,
                            0, <<>>, 0, NoHandle)
    /\ UNCHANGED <<OPENAI_API_KEY, frontend, messages>>

\* "Add File to Knowledge Base": guarded by st.session_state.chatbot.
UiAddFile ==
    /\ frontend = "ui" /\ chatbot # None
    /\ \E content \in Texts, fault \in FileFaults :
         LET r == add_text_file(chatbot, weaviate, content, fault)
         IN  /\ Len(r.db.docs) <= MaxDocs
             /\ chatbot' = r.cb
             /\ weaviate' = r.db
             /\ last' = Log("add_file", "add_text_file", fault, r,
                            0, <<content>>, 1, NoHandle)
    /\ UNCHANGED <<OPENAI_API_KEY, frontend, pc, messages>>

\* "Add Text": chatbot.add_documents([manual_text]).
UiAddText ==
    /\ frontend = "ui" /\ chatbot # None
    /\ \E manual_text \in Texts, fault \in AddFaults :
         LET r == add_documents(chatbot, weaviate, <<manual_text>>, fault, 1)
         IN  /\ Len(r.db.docs) <= MaxDocs
             /\ chatbot' = r.cb
             /\ weaviate' = r.db
             /\ last' = Log("add_text", "add_documents", fault, r,
                            0, <<manual_text>>, 1, NoHandle)
    /\ UNCHANGED <<OPENAI_API_KEY, frontend, pc, messages>>

\* "Clear Chat History".
UiClearHistory ==
    /\ frontend = "ui"
    /\ messages # <<>>
    /\ messages' = <<>>
    /\ last' = Log("clear_history", "none", "none",
                   Return(chatbot, weaviate, NoValue), 0, <<>>, 0, NoHandle)
    /\ UNCHANGED <<OPENAI_API_KEY, frontend, pc, weaviate, chatbot>>

\* "Clear Knowledge Base": chatbot.clear_knowledge_base() inside try/except.
UiClearKB ==
    /\ frontend = "ui" /\ chatbot # None
    /\ weaviate.classExists => weaviate.drops < MaxDrops
    /\ \E fault \in ClearFaults :
         LET r == clear_knowledge_base(chatbot, weaviate, fault)
         IN  /\ chatbot' = r.cb
             /\ weaviate' = r.db
             /\ last' = Log("clear", "clear_knowledge_base", fault, r,
                            0, <<>>, 0, NoHandle)
    /\ UNCHANGED <<OPENAI_API_KEY, frontend, pc, messages>>

\* The chat input: the prompt and the response (or the exception's text)
\* are appended to the history; only the prompt is passed to chat.
UiChat ==
    /\ frontend = "ui" /\ pc = "ready"
    /\ Len(messages) < 2 * MaxTurns
    /\ \E prompt \in Texts, fault \in ChatFaults :
         LET r == chat(chatbot, weaviate, prompt, fault)
         IN  /\ chatbot' = r.cb
             /\ weaviate' = r.db
             /\ messages' = messages
                    \o << [role |-> "user", content |-> prompt],
                          [role |-> "assistant",
                           content |-> IF r.raised THEN "exception"
                                       ELSE r.value.kind] >>
             /\ last' = Log("chat", "chat", fault, r, prompt, <<>>, 0,
                            chatbot.query_engine)
    /\ UNCHANGED <<OPENAI_API_KEY, frontend, pc>>

\* ----------------------------------------------------- a direct caller
\* WeaviateChatbot(...)
ApiConstruct ==
    /\ frontend = "api" /\ pc = "start"
    /\ \E fault \in InitFaults :
         LET r == __init__(OPENAI_API_KEY, weaviate, fault)
         IN  /\ pc' = IF r.raised THEN "start" ELSE "ready"
             /\ chatbot' = IF r.raised THEN None ELSE r.cb
             /\ weaviate' = r.db
             /\ last' = Log("api", "__init__", fault, r, 0, <<>>, 0, NoHandle)
    /\ UNCHANGED <<OPENAI_API_KEY, frontend, messages>>

\* chatbot.add_documents(documents)
ApiAddDocuments ==
    /\ frontend = "api" /\ pc = "ready"
    /\ \E documents \in SeqsUpTo(MaxBatch) \ {<<>>}, fault \in AddFaults :
         \E at \in IF fault = "none" THEN {1} ELSE 1..Len(documents) :
            LET r == add_documents(chatbot, weaviate, documents, fault, at)
            IN  /\ Len(r.db.docs) <= MaxDocs
                /\ chatbot' = r.cb
                /\ weaviate' = r.db
                /\ last' = Log("api", "add_documents", fault, r,
                               0, documents, at, NoHandle)
    /\ UNCHANGED <<OPENAI_API_KEY, frontend, pc, messages>>

\* chatbot.chat(message)
ApiChat ==
    /\ frontend = "api" /\ pc = "ready"
    /\ \E message \in Texts, fault \in ChatFaults :
         LET r == chat(chatbot, weaviate, message, fault)
         IN  /\ chatbot' = r.cb
             /\ weaviate' = r.db
             /\ last' = Log("api", "chat", fault, r, message, <<>>, 0,
                            chatbot.query_engine)
    /\ UNCHANGED <<OPENAI_API_KEY, frontend, pc, messages>>

Next ==
    \/ MainInit \/ MainQuit \/ MainClear \/ MainAddFile \/ MainChat
    \/ MainEmpty
    \/ UiInitialize \/ UiAddFile \/ UiAddText \/ UiClearHistory
    \/ UiClearKB \/ UiChat
    \/ ApiConstruct \/ ApiAddDocuments \/ ApiChat

Spec == Init /\ [][Next]_vars

\* ================================================================ claims
\* C1: chat never raises to its caller; when the query fails (a service
\* fails, or the class is not in the database) it returns the error string.
C1_ChatNeverRaises ==
    last.call = "chat" =>
        /\ ~last.raised
        /\ last.value.kind \in {"answer", "error"}
        /\ (last.fault = "query" \/ ~weaviate.classExists)
               => last.value = ErrorString

\* A chat whose query failed, made on a collection holding a document after
\* a clear had left the query engine of before the drop in place, returned
\* the error string.
C1_Witness ==
    /\ last.call = "chat"
    /\ last.fault = "query"
    /\ weaviate.docs # <<>>
    /\ last.served.builtAt < weaviate.drops
    /\ last.value = ErrorString
    /\ ~last.raised

\* C2: after clear_knowledge_base returns, the collection exists and holds
\* no document.
C2_ClearRecreatesEmpty ==
    (last.call = "clear_knowledge_base" /\ ~last.raised) =>
        (weaviate.classExists /\ weaviate.docs = <<>>)

\* C3: a second clear_knowledge_base right after a first one that returned,
\* with nothing failing, does not raise and leaves an existing, empty
\* collection.
C3_ClearTwice ==
    (last.call = "clear_knowledge_base" /\ last.afterClear
        /\ last.fault = "none") =>
        (~last.raised /\ weaviate.classExists /\ weaviate.docs = <<>>)

\* C4: when the insertion of item `at` of an add_documents batch fails, the
\* call raises and the collection holds what it held before plus the items
\* before `at`.
C4_PriorInsertsStay ==
    [][(last'.call = "add_documents" /\ last'.fault = "insert") =>
          /\ last'.raised
          /\ weaviate'.docs =
                weaviate.docs \o SubSeq(last'.documents, 1, last'.at - 1)]_vars

\* The second item of a batch failed on a collection that held a document:
\* the first item is the collection's last document.
C4_Witness ==
    /\ last.call = "add_documents"
    /\ last.fault = "insert"
    /\ last.at = 2
    /\ last.raised
    /\ Len(weaviate.docs) >= 2
    /\ weaviate.docs[Len(weaviate.docs)] = last.documents[1]

\* C5: when one item of an add_documents batch fails, every other item of
\* the batch, those after it included, is in the collection when the call
\* ends.
C5_OthersInserted ==
    [][(last'.call = "add_documents" /\ last'.fault # "none") =>
          weaviate'.docs =
              weaviate.docs \o Without(last'.documents, last'.at)]_vars

\* C6: constructing a WeaviateChatbot removes no document of a collection
\* and never removes the collection, the fallback of _setup_index included.
C6_InitKeepsData ==
    [][last'.call = "__init__" =>
          /\ weaviate'.docs = weaviate.docs
          /\ weaviate.classExists => weaviate'.classExists
          /\ weaviate'.drops = weaviate.drops]_vars

\* A construction over a collection holding a document went through the
\* fallback branch of _setup_index and returned.
C6_Witness ==
    /\ last.call = "__init__"
    /\ last.fault = "load"
    /\ ~last.raised
    /\ chatbot.index.built
    /\ weaviate.docs # <<>>

\* C7: without OPENAI_API_KEY the constructor raises ValueError before it
\* contacts the vector database, no chatbot is held, and no caller gets to
\* a command that inserts, clears or chats.
C7_NoKeyNoStart ==
    ~OPENAI_API_KEY =>
        /\ ~weaviate.contacted
        /\ chatbot = None
        /\ pc # "ready"
        /\ last.call \in {"none", "__init__"}
        /\ last.cmd \in {"none", "start", "initialize", "api"}
        /\ last.call = "__init__" => (last.raised /\ last.exc = "ValueError")
        /\ (frontend = "console" /\ last.call = "__init__") => pc = "done"

\* The console started without the key: the constructor raised and main()
\* ended.
C7_Witness ==
    /\ ~OPENAI_API_KEY
    /\ frontend = "console"
    /\ last.call = "__init__"
    /\ last.raised
    /\ pc = "done"

\* C8: once the console loop has started, it ends only on 'quit'.
C8_LoopEndsOnlyOnQuit ==
    (frontend = "console" /\ pc = "done" /\ last.cmd # "start") =>
        last.cmd = "quit"

\* C9: every chat is served by a query engine built after the most recent
\* drop of the collection.
C9_EngineBuiltAfterDrop ==
    last.call = "chat" => last.served.builtAt = weaviate.drops

\* C10: a chat leaves the collection, the index and the query engine as
\* they were, and its response is decided by the message and the
\* collection's contents (and by whether the query failed) alone.
C10_ChatReadOnly ==
    [][last'.call = "chat" =>
          /\ weaviate' = weaviate
          /\ chatbot' = chatbot
          /\ last'.value =
               IF last'.fault = "query" \/ ~weaviate.classExists
               THEN ErrorString
               ELSE [kind |-> "answer",
                     retrieved |-> retrieve(weaviate.docs, last'.message,
                                            similarity_top_k)]]_vars

\* A chat turn of the page retrieved documents and is in the history.
C10_Witness ==
    /\ frontend = "ui"
    /\ Len(messages) = 2
    /\ last.call = "chat"
    /\ last.value.kind = "answer"
    /\ last.value.retrieved # <<>>
    /\ messages[1].content = last.message

====
